---------------------------- MODULE Spec2Model ----------------------------
(* Model of viseron's storage component                                    *)
(* (src/viseron/components/storage/__init__.py): the validation of the     *)
(* tier configuration, the bootstrap of the database schema and the        *)
(* construction of one TierHandler per camera, category, subcategory and   *)
(* tier.                                                                   *)
EXTENDS Integers, Sequences, FiniteSets, TLC

VARIABLES
    config,      \* the configuration handed to CONFIG_SCHEMA and to setup
    validation,  \* outcome of CONFIG_SCHEMA: "pending", "ok" or the error raised
    pc,          \* position of the process: config load, Storage.__init__ steps
    store,       \* the database: recorded alembic revision and created tables
    engine,      \* Storage.engine: "none", "open" or "disposed"
    runs,        \* history of the create_database calls made against the store
    creates,     \* create_database calls made by the current Storage instance
    listeners,   \* callbacks registered with vis by the current instance
    movers,      \* TierHandler instances constructed by the current instance
    notified,    \* cameras of the camera-registered events received, in order
    restarts     \* process restarts so far

vars == <<config, validation, pc, store, engine, runs, creates, listeners,
          movers, notified, restarts>>

(* ---------------------------------------------------------------------- *)
(* Bounds                                                                 *)
(* ---------------------------------------------------------------------- *)
MaxTiers == 3
MaxDays == 2
MaxNotifications == 2
MaxRestarts == 1
HeadRev == 2

(* Python's None and an optional value: a sequence of length 0 or 1.       *)
None == <<>>
Some(x) == <<x>>

Range(s) == {s[i] : i \in 1..Len(s)}

(* ---------------------------------------------------------------------- *)
(* Constants of the program                                               *)
(* ---------------------------------------------------------------------- *)
TEMP_DIR == "/tmp/viseron"

TIER_CATEGORIES ==
    [recordings |-> <<"segments", "recordings">>,
     snapshots  |-> <<"face_recognition", "object_detection">>]

Categories == <<"recordings", "snapshots">>

(* ---------------------------------------------------------------------- *)
(* validate_tiers                                                         *)
(* ---------------------------------------------------------------------- *)
OrZero(v) == IF v = None THEN 0 ELSE v[1]

(* calculate_age(age).total_seconds(): unset units count as zero.          *)
calculate_age(age) ==
    OrZero(age.days) * 86400 + OrZero(age.hours) * 3600 + OrZero(age.minutes) * 60

ReservedPath(path) == path \in {"/tmp", TEMP_DIR}

AgeViolationNoStrict(tier_max_age, previous_tier_max_age) ==
    tier_max_age > 0 /\ tier_max_age < previous_tier_max_age

AgeViolationNoSentinel(tier_max_age, previous_tier_max_age) ==
    tier_max_age <= previous_tier_max_age

AgeViolation(tier_max_age, previous_tier_max_age) ==
    tier_max_age > 0 /\ tier_max_age <= previous_tier_max_age

(* The loop of validate_tiers from its i-th tier on, with the loop's       *)
(* previous_tier and paths; the result is "ok" or the error it raises.     *)
RECURSIVE ValidateLoop(_, _, _, _)
ValidateLoop(tiers, i, previous_tier, paths) ==
    IF i > Len(tiers) THEN "ok"
    ELSE LET tier == tiers[i] IN
        IF ReservedPath(tier.path) THEN "reserved"
        ELSE IF tier.path \in Range(paths) THEN "duplicate"
        ELSE IF previous_tier = None
            THEN ValidateLoop(tiers, i + 1, Some(tier), Append(paths, tier.path))
        ELSE IF AgeViolation(calculate_age(tier.max_age),
                             calculate_age(previous_tier[1].max_age))
            THEN "age"
        ELSE ValidateLoop(tiers, i + 1, Some(tier), Append(paths, tier.path))

validate_tiers(cfg) == ValidateLoop(cfg.recordings.tiers, 1, None, <<>>)

(* ---------------------------------------------------------------------- *)
(* Configurations                                                         *)
(* ---------------------------------------------------------------------- *)
Age(d, h) == [days |-> d, hours |-> h, minutes |-> None]
Tier(p, a) == [path |-> p, max_age |-> a]

Paths == {"/tmp", TEMP_DIR, "/a", "/b", "/c"}

Ages == {Age(None, None), Age(None, Some(24))}
            \cup {Age(Some(d), None) : d \in 0..MaxDays}

Tiers == {Tier(p, a) : p \in Paths, a \in Ages}

Chains == UNION {[1..n -> Tiers] : n \in 1..MaxTiers}

DEFAULT_SNAPSHOTS_TIERS == <<Tier("/", Age(Some(7), None))>>

Config(rec, snap, face, obj) ==
    [recordings |-> [tiers |-> rec],
     snapshots  |-> [tiers |-> snap,
                     face_recognition |-> face,
                     object_detection |-> obj]]

ValidateConfigs == {Config(c, DEFAULT_SNAPSHOTS_TIERS, None, None) : c \in Chains}

(* ---------------------------------------------------------------------- *)
(* CONFIG_SCHEMA: the configuration is validated when it is loaded         *)
(* ---------------------------------------------------------------------- *)
CONFIG_SCHEMA ==
    /\ pc = "config"
    /\ validation' = validate_tiers(config)
    /\ pc' = IF validation' = "ok" THEN "setup" ELSE "rejected"
    /\ UNCHANGED <<config, store, engine, runs, creates, listeners, movers,
                   notified, restarts>>

InitValidate ==
    /\ config \in ValidateConfigs
    /\ validation = "pending"
    /\ pc = "config"
    /\ store = [rev |-> None, tables |-> FALSE]
    /\ engine = "none"
    /\ runs = <<>>
    /\ creates = 0
    /\ listeners = {}
    /\ movers = <<>>
    /\ notified = <<>>
    /\ restarts = 0

SpecValidate == InitValidate /\ [][CONFIG_SCHEMA]_vars

(* ---------------------------------------------------------------------- *)
(* Schema bootstrap: Storage.create_database                               *)
(* ---------------------------------------------------------------------- *)
(* What a call can run into: nothing, or an exception raised by            *)
(* engine.connect, Base.metadata.create_all, command.stamp or              *)
(* command.upgrade.  A fault on a call that is not made has no effect.     *)
Faults == {"none", "connect", "create_all", "stamp", "upgrade"}

Outcome(st, ops, error, raised) ==
    [store |-> st, ops |-> ops, error |-> error, raised |-> raised]

(* _run_migrations: command.upgrade(cfg, "head").  The upgrade is          *)
(* transactional: a failure leaves the recorded revision where it was.  A  *)
(* recorded revision the scripts do not know (newer than head) cannot be   *)
(* upgraded; a store without revision would have every migration replayed. *)
run_migrations(st, fault) ==
    IF fault = "upgrade" \/ (st.rev # None /\ st.rev[1] > HeadRev)
    THEN Outcome(st, <<"upgrade">>, "upgrade", TRUE)
    ELSE Outcome([rev |-> Some(HeadRev), tables |-> TRUE], <<"upgrade">>,
                 "none", FALSE)

(* _create_new_db: create_all, then stamp head; every exception of the two *)
(* is caught and logged.                                                   *)
create_new_db(st, eng, fault) ==
    IF eng = "none"
    THEN Outcome(st, <<>>, "engine", TRUE)
    ELSE IF fault = "create_all"
    THEN Outcome(st, <<"create_all">>, "create_all", FALSE)
    ELSE IF fault = "stamp"
    THEN Outcome([st EXCEPT !.tables = TRUE], <<"create_all", "stamp">>,
                 "stamp", FALSE)
    ELSE Outcome([rev |-> Some(HeadRev), tables |-> TRUE],
                 <<"create_all", "stamp">>, "none", FALSE)

BranchReplay(current_rev) ==
    IF current_rev # Some(HeadRev) THEN "migrate" ELSE "noop"

(* The branch create_database selects from the recorded revision.         *)
Branch(current_rev) ==
    IF current_rev = None THEN "create"
    ELSE IF current_rev # Some(HeadRev) THEN "migrate"
    ELSE "noop"

(* One call of create_database against store st.                           *)
create_database_result(st, fault) ==
    IF fault = "connect"
    THEN Outcome(st, <<>>, "connect", TRUE)
    ELSE LET current_rev == st.rev
             branch == Branch(current_rev)
         IN  IF branch = "create" THEN create_new_db(st, "open", fault)
             ELSE IF branch = "migrate" THEN run_migrations(st, fault)
             ELSE Outcome(st, <<>>, "none", FALSE)

(* ---------------------------------------------------------------------- *)
(* Storage.__init__, statement by statement                                *)
(* ---------------------------------------------------------------------- *)
InitOrderListenFirst ==
    <<"setup", "listen_event", "create_database", "register_signal_handler",
      "ready">>

InitOrder ==
    <<"setup", "create_database", "listen_event", "register_signal_handler",
      "ready">>

After(p) ==
    InitOrder[(CHOOSE i \in 1..(Len(InitOrder) - 1) : InitOrder[i] = p) + 1]

(* setup: Storage(vis, config) is entered; the fields are initialised.     *)
setup ==
    /\ pc = "setup"
    /\ engine' = "none"
    /\ pc' = After("setup")
    /\ UNCHANGED <<config, validation, store, runs, creates, listeners,
                   movers, notified, restarts>>

create_database ==
    /\ pc = "create_database"
    /\ \E fault \in Faults :
         LET r == create_database_result(store, fault) IN
         /\ store' = r.store
         /\ engine' = "open"
         /\ runs' = Append(runs, [before |-> store, ops |-> r.ops,
                                  after |-> r.store, error |-> r.error,
                                  raised |-> r.raised])
         /\ pc' = IF r.raised THEN "crashed" ELSE After("create_database")
    /\ creates' = creates + 1
    /\ UNCHANGED <<config, validation, listeners, movers, notified, restarts>>

listen_event ==
    /\ pc = "listen_event"
    /\ listeners' = listeners \cup {"camera_registered"}
    /\ pc' = After("listen_event")
    /\ UNCHANGED <<config, validation, store, engine, runs, creates, movers,
                   notified, restarts>>

register_signal_handler ==
    /\ pc = "register_signal_handler"
    /\ listeners' = listeners \cup {"shutdown"}
    /\ pc' = After("register_signal_handler")
    /\ UNCHANGED <<config, validation, store, engine, runs, creates, movers,
                   notified, restarts>>

(* ---------------------------------------------------------------------- *)
(* Storage._camera_registered                                              *)
(* ---------------------------------------------------------------------- *)
Cameras == {"camera_1", "camera_2"}

TierHandler(event, camera, index, category, subcategory, tier, next_tier) ==
    [event |-> event, camera |-> camera, index |-> index,
     category |-> category, subcategory |-> subcategory,
     tier |-> tier, next_tier |-> next_tier]

NextTierSame(tiers, index) ==
    IF index = Len(tiers) THEN None ELSE Some(tiers[index + 1])

(* next_tier for the 0-based index of enumerate(tiers).                    *)
NextTier(tiers, index) ==
    IF index = Len(tiers) - 1 THEN None ELSE Some(tiers[index + 2])

(* The TierHandlers of one tier: one per subcategory of the category.      *)
RECURSIVE SubcategoryLoop(_, _, _, _, _, _)
SubcategoryLoop(event, camera, category, tiers, index, s) ==
    IF s > Len(TIER_CATEGORIES[category]) THEN <<>>
    ELSE <<TierHandler(event, camera, index, category,
                       TIER_CATEGORIES[category][s], tiers[index + 1],
                       NextTier(tiers, index))>>
         \o SubcategoryLoop(event, camera, category, tiers, index, s + 1)

RECURSIVE TierLoop(_, _, _, _, _)
TierLoop(event, camera, category, tiers, index) ==
    IF index > Len(tiers) - 1 THEN <<>>
    ELSE SubcategoryLoop(event, camera, category, tiers, index, 1)
         \o TierLoop(event, camera, category, tiers, index + 1)

RECURSIVE CategoryLoop(_, _, _, _)
CategoryLoop(cfg, event, camera, c) ==
    IF c > Len(Categories) THEN <<>>
    ELSE TierLoop(event, camera, Categories[c], cfg[Categories[c]].tiers, 0)
         \o CategoryLoop(cfg, event, camera, c + 1)

HandlersOnce(cfg, event, camera) ==
    IF camera \in Range(notified) THEN <<>>
    ELSE CategoryLoop(cfg, event, camera, 1)

(* The TierHandlers one camera-registered event constructs, in order.      *)
Handlers(cfg, event, camera) == CategoryLoop(cfg, event, camera, 1)

camera_registered(camera) ==
    /\ "camera_registered" \in listeners
    /\ Len(notified) < MaxNotifications
    /\ notified' = Append(notified, camera)
    /\ movers' = movers \o Handlers(config, Len(notified) + 1, camera)
    /\ UNCHANGED <<config, validation, pc, store, engine, runs, creates,
                   listeners, restarts>>

(* Storage._shutdown, called on VISERON_SIGNAL_STOPPING.                   *)
shutdown ==
    /\ "shutdown" \in listeners
    /\ pc = "ready"
    /\ engine' = IF engine # "none" THEN "disposed" ELSE engine
    /\ pc' = "stopped"
    /\ UNCHANGED <<config, validation, store, runs, creates, listeners,
                   movers, notified, restarts>>

(* The process is started again on the same configuration and store: a new *)
(* Storage instance, no callbacks and no TierHandlers.                     *)
Restart ==
    /\ pc \in {"stopped", "crashed"}
    /\ restarts < MaxRestarts
    /\ restarts' = restarts + 1
    /\ pc' = "config"
    /\ validation' = "pending"
    /\ engine' = "none"
    /\ creates' = 0
    /\ listeners' = {}
    /\ movers' = <<>>
    /\ notified' = <<>>
    /\ UNCHANGED <<config, store, runs>>

(* ---------------------------------------------------------------------- *)
(* The whole component                                                     *)
(* ---------------------------------------------------------------------- *)
Days(d) == Age(Some(d), None)

ChainA == <<Tier("/a", Days(1))>>
ChainABC == <<Tier("/a", Days(1)), Tier("/b", Days(2)), Tier("/c", Age(None, None))>>
ChainReserved == <<Tier("/a", Days(1)), Tier("/tmp", Days(2))>>
ChainDuplicate == <<Tier("/a", Days(1)), Tier("/a", Days(2))>>
ChainNonMonotonic == <<Tier("/a", Days(2)), Tier("/b", Days(1))>>
ChainOverride == <<Tier("/d", Days(1)), Tier("/e", Days(2))>>

RecordingsChains == {ChainA, ChainABC, ChainNonMonotonic}
SnapshotsChains == {ChainA, ChainReserved, ChainDuplicate, ChainNonMonotonic}
Overrides == {None, Some([tiers |-> ChainOverride])}

Configs ==
    {Config(r, s, f, o) : r \in RecordingsChains, s \in SnapshotsChains,
                          f \in Overrides, o \in Overrides}

Revisions == {None} \cup {Some(r) : r \in 1..(HeadRev + 1)}

Init ==
    /\ config \in Configs
    /\ validation = "pending"
    /\ pc = "config"
    /\ \E rev \in Revisions : store = [rev |-> rev, tables |-> rev # None]
    /\ engine = "none"
    /\ runs = <<>>
    /\ creates = 0
    /\ listeners = {}
    /\ movers = <<>>
    /\ notified = <<>>
    /\ restarts = 0

Next ==
    \/ CONFIG_SCHEMA
    \/ setup
    \/ create_database
    \/ listen_event
    \/ register_signal_handler
    \/ \E camera \in Cameras : camera_registered(camera)
    \/ shutdown
    \/ Restart

Spec == Init /\ [][Next]_vars

(* ---------------------------------------------------------------------- *)
(* Properties                                                              *)
(* ---------------------------------------------------------------------- *)
MaxAge(tier) == calculate_age(tier.max_age)

NoReservedPath(tiers) ==
    \A i \in 1..Len(tiers) : tiers[i].path \notin {"/tmp", TEMP_DIR}

NoSharedPath(tiers) ==
    \A i, j \in 1..Len(tiers) : i # j => tiers[i].path # tiers[j].path

MonotonicAge(tiers) ==
    \A i \in 1..(Len(tiers) - 1) :
        MaxAge(tiers[i]) > 0 =>
            \/ MaxAge(tiers[i + 1]) > MaxAge(tiers[i])
            \/ MaxAge(tiers[i + 1]) = 0

ChainInvariants(tiers) ==
    NoReservedPath(tiers) /\ NoSharedPath(tiers) /\ MonotonicAge(tiers)

(* C1: validate_tiers accepts a recordings chain if and only if no path is *)
(* reserved, no two tiers share a path, and every adjacent pair whose      *)
(* first max_age is positive has a second max_age that is strictly greater *)
(* or unlimited (0).                                                       *)
C1_AcceptsIffInvariants ==
    validation # "pending" =>
        (validation = "ok" <=> ChainInvariants(config.recordings.tiers))

(* C1 witness: the chain [positive, unlimited] was validated and accepted. *)
C1_Witness ==
    LET tiers == config.recordings.tiers IN
    /\ validation = "ok"
    /\ Len(tiers) = 2
    /\ MaxAge(tiers[1]) > 0
    /\ MaxAge(tiers[2]) = 0

(* C2, as stated: in an accepted chain an unlimited tier (max_age 0) is    *)
(* only ever the last tier.                                                *)
C2_UnlimitedOnlyLast ==
    validation = "ok" =>
        \A i \in 1..(Len(config.recordings.tiers) - 1) :
            MaxAge(config.recordings.tiers[i]) > 0

PositivePairsIncrease(tiers) ==
    \A i \in 1..(Len(tiers) - 1) :
        (MaxAge(tiers[i]) > 0 /\ MaxAge(tiers[i + 1]) > 0) =>
            MaxAge(tiers[i + 1]) > MaxAge(tiers[i])

(* C2, amended: a chain with an unlimited tier before its last tier is     *)
(* accepted exactly when its paths are neither reserved nor repeated and   *)
(* every adjacent pair of positive max_ages is strictly increasing; the    *)
(* unlimited tier itself is never a reason to reject.                      *)
C2_UnlimitedAnywhere ==
    LET tiers == config.recordings.tiers IN
    (/\ validation # "pending"
     /\ \E i \in 1..(Len(tiers) - 1) : MaxAge(tiers[i]) = 0)
    => (validation = "ok" <=>
            /\ NoReservedPath(tiers)
            /\ NoSharedPath(tiers)
            /\ PositivePairsIncrease(tiers))

(* C2 witness: a chain [older, unlimited, younger] was accepted.           *)
C2_Witness ==
    LET tiers == config.recordings.tiers IN
    /\ validation = "ok"
    /\ Len(tiers) = 3
    /\ MaxAge(tiers[2]) = 0
    /\ MaxAge(tiers[3]) > 0
    /\ MaxAge(tiers[1]) > MaxAge(tiers[3])

(* C3, as stated: a configuration that passed validation has a snapshots   *)
(* chain that satisfies the tier-chain invariants.                         *)
C3_SnapshotsValidated ==
    validation = "ok" => ChainInvariants(config.snapshots.tiers)

LastRun == runs[Len(runs)]

(* C4, as stated: when the bootstrap of the current Storage instance hit   *)
(* an error, construction was aborted: no callback is installed and no     *)
(* TierHandler exists.                                                     *)
C4_BootstrapFailureFatal ==
    (creates = 1 /\ LastRun.error # "none") =>
        /\ pc = "crashed"
        /\ listeners = {}
        /\ movers = <<>>

(* C5: every create_database call that reached the store chose its action  *)
(* from the recorded revision alone: none recorded -> create_all first and *)
(* no upgrade; older than head -> upgrade only; head -> nothing, store     *)
(* untouched.  create_all and upgrade never both run in one call.          *)
C5_OneActionByRevision ==
    \A k \in 1..Len(runs) :
        LET r == runs[k] IN
        r.error # "connect" =>
            /\ r.before.rev = None =>
                   /\ r.ops # <<>>
                   /\ r.ops[1] = "create_all"
                   /\ "upgrade" \notin Range(r.ops)
            /\ (r.before.rev # None /\ r.before.rev[1] < HeadRev) =>
                   r.ops = <<"upgrade">>
            /\ r.before.rev = Some(HeadRev) =>
                   (r.ops = <<>> /\ r.after = r.before)
            /\ ~("create_all" \in Range(r.ops) /\ "upgrade" \in Range(r.ops))

(* C5 witness: a store at an older revision was migrated to head and the  *)
(* next start did nothing.                                                 *)
C5_Witness ==
    /\ Len(runs) = 2
    /\ runs[1].before.rev # None
    /\ runs[1].before.rev[1] < HeadRev
    /\ runs[1].ops = <<"upgrade">>
    /\ runs[1].after.rev = Some(HeadRev)
    /\ runs[2].ops = <<>>

(* C6, as stated: the first create_database that returns on a store with   *)
(* no recorded revision leaves it at head, and every later one that        *)
(* returns does nothing and leaves the store as it was.                    *)
C6_BootstrapIdempotent ==
    (/\ Len(runs) >= 1
     /\ runs[1].before.rev = None
     /\ ~runs[1].raised)
    => /\ runs[1].after.rev = Some(HeadRev)
       /\ \A k \in 2..Len(runs) :
              ~runs[k].raised =>
                  (runs[k].ops = <<>> /\ runs[k].after = runs[k].before)

(* C7: a Storage instance calls create_database at most once, and whenever *)
(* its camera-registered listener is installed or a TierHandler exists,    *)
(* that one call has been made and has returned.                           *)
C7_BootstrapBeforeListener ==
    /\ creates <= 1
    /\ ("camera_registered" \in listeners \/ movers # <<>>) =>
           /\ creates = 1
           /\ pc \notin {"config", "setup", "create_database"}
           /\ ~LastRun.raised

(* C7 witness: an event was handled right after the listener was           *)
(* installed, before the shutdown handler was registered.                  *)
C7_Witness ==
    /\ movers # <<>>
    /\ pc = "register_signal_handler"
    /\ creates = 1

MoversOf(event, category, subcategory, index) ==
    {j \in 1..Len(movers) :
        /\ movers[j].event = event
        /\ movers[j].category = category
        /\ movers[j].subcategory = subcategory
        /\ movers[j].index = index}

(* C8: for every event, category, subcategory of it and index i of the     *)
(* category's chain, exactly one TierHandler was constructed, for the      *)
(* event's camera, with tier i as source and tier i+1 as destination, or   *)
(* no destination for the last index and only for it; the event            *)
(* constructed no other TierHandler.                                       *)
C8_OneMoverPerTier ==
    \A e \in 1..Len(notified) :
        /\ \A c \in 1..Len(Categories) :
               LET category == Categories[c]
                   tiers == config[category].tiers
               IN  \A subcategory \in Range(TIER_CATEGORIES[category]) :
                   \A i \in 0..(Len(tiers) - 1) :
                       /\ Cardinality(MoversOf(e, category, subcategory, i)) = 1
                       /\ \A j \in MoversOf(e, category, subcategory, i) :
                              /\ movers[j].camera = notified[e]
                              /\ movers[j].tier = tiers[i + 1]
                              /\ (i = Len(tiers) - 1) =>
                                     movers[j].next_tier = None
                              /\ (i < Len(tiers) - 1) =>
                                     movers[j].next_tier = Some(tiers[i + 2])
        /\ \A j \in 1..Len(movers) :
               movers[j].event = e =>
                   /\ movers[j].category \in Range(Categories)
                   /\ movers[j].subcategory
                          \in Range(TIER_CATEGORIES[movers[j].category])
                   /\ movers[j].index
                          \in 0..(Len(config[movers[j].category].tiers) - 1)

(* C8 witness: an event was handled for a configuration with a three-tier  *)
(* recordings chain and a single-tier snapshots chain.                     *)
C8_Witness ==
    /\ Len(notified) >= 1
    /\ Len(config.recordings.tiers) = 3
    /\ Len(config.snapshots.tiers) = 1
    /\ movers # <<>>

(* C9, as stated: a TierHandler of a snapshots subcategory that has its    *)
(* own tiers configured is bound to the tier of that override chain.       *)
C9_OverrideUsed ==
    \A j \in 1..Len(movers) :
        movers[j].category = "snapshots" =>
            LET override == config.snapshots[movers[j].subcategory] IN
            override # None =>
                /\ movers[j].index < Len(override[1].tiers)
                /\ movers[j].tier = override[1].tiers[movers[j].index + 1]

Notifications(camera) ==
    Cardinality({e \in 1..Len(notified) : notified[e] = camera})

MoversOfCamera(ms, camera) == SelectSeq(ms, LAMBDA m : m.camera = camera)

C10_Count ==
    \A camera \in Cameras :
    \A c \in 1..Len(Categories) :
    \A subcategory \in Range(TIER_CATEGORIES[Categories[c]]) :
    \A i \in 0..(Len(config[Categories[c]].tiers) - 1) :
        Cardinality({j \in 1..Len(movers) :
                        /\ movers[j].camera = camera
                        /\ movers[j].category = Categories[c]
                        /\ movers[j].subcategory = subcategory
                        /\ movers[j].index = i})
            = Notifications(camera)

C10_OthersUntouched ==
    \A camera \in Cameras :
        notified' = Append(notified, camera) =>
            \A other \in Cameras \ {camera} :
                MoversOfCamera(movers', other) = MoversOfCamera(movers, other)

(* C10: after every step the number of TierHandlers of a tuple (camera,    *)
(* category, subcategory, index) equals the number of events received for  *)
(* that camera, and an event for one camera leaves the TierHandlers of     *)
(* every other camera as they were.                                        *)
C10_MoversPerNotification == [][C10_Count' /\ C10_OthersUntouched]_vars

(* C10 witness: the same camera was registered twice and has two           *)
(* TierHandlers for each of its tuples.                                    *)
C10_Witness ==
    /\ Len(notified) >= 2
    /\ notified[1] = notified[2]
    /\ Cardinality({j \in 1..Len(movers) :
                       /\ movers[j].camera = notified[1]
                       /\ movers[j].category = "recordings"
                       /\ movers[j].subcategory = "segments"
                       /\ movers[j].index = 0}) >= 2

=============================================================================
